---- MODULE Spec2Model ----
(***************************************************************************)
(* A model of the sbg-icons gallery page: the discovery pipeline of        *)
(* scripts/icon-loader.js, the render/filter layer and the modal and       *)
(* clipboard helper of scripts/app.js.                                     *)
(*                                                                         *)
(* JavaScript strings are sequences of one-character strings, so that      *)
(* toLowerCase, includes, endsWith and replace are computed, not assumed.  *)
(* An empty sequence is the empty string (falsy in JavaScript).            *)
(***************************************************************************)
EXTENDS Integers, Sequences, FiniteSets, TLC

VARIABLES
    \* app.js: the script's own top-level let bindings
    iconsData, filteredIcons, currentCategory, appInited,
    \* the DOM
    searchInput, categoryButtons, activeButtons,
    gridDisplay, gridContent, noResultsDisplay,
    totalCount, visibleCount, modal, notification,
    \* icon-loader.js: properties of the window object
    winIconsData, winFilteredIcons, skipIndex,
    \* asynchronous activity: discovery runs, timers, clipboard promises
    githubPages, pageLoadStarted, runs, lastDone, renderTimers,
    notifTimers, copyPending,
    \* the strategies applied to drawn inputs
    rtPhase, rtIcons, rtIndex, rtServer, rtLoaded,
    \* history variables the properties read
    filterRan, lastClicked

appVars == <<iconsData, filteredIcons, currentCategory, appInited>>
filterDom == <<searchInput, gridDisplay, gridContent, noResultsDisplay,
               totalCount, visibleCount>>
catDom == <<categoryButtons, activeButtons>>
winVars == <<winIconsData, winFilteredIcons, skipIndex>>
runVars == <<githubPages, pageLoadStarted, runs, lastDone, renderTimers>>
copyVars == <<notification, notifTimers, copyPending>>
rtVars == <<rtPhase, rtIcons, rtIndex, rtServer, rtLoaded>>
vars == <<appVars, filterDom, catDom, modal, winVars, runVars, copyVars,
          rtVars, filterRan, lastClicked>>

----------------------------------------------------------------------------
(* Bounds of the model *)

\* longest icon collection drawn as an input of the render/filter layer
MaxIcons == 3
\* discovery runs that may be in progress together
MaxRuns == 2
\* clipboard writes and notification timers that may be pending together
MaxCopies == 2

----------------------------------------------------------------------------
(* Strings *)

Upper == <<"A","B","C","D","E","F","G","H","I","J","K","L","M",
           "N","O","P","Q","R","S","T","U","V","W","X","Y","Z">>
Lower == <<"a","b","c","d","e","f","g","h","i","j","k","l","m",
           "n","o","p","q","r","s","t","u","v","w","x","y","z">>

LowerChar(c) ==
    IF \E i \in 1..Len(Upper) : Upper[i] = c
    THEN Lower[CHOOSE i \in 1..Len(Upper) : Upper[i] = c]
    ELSE c

\* String.prototype.toLowerCase
ToLowerCase(s) == [i \in 1..Len(s) |-> LowerChar(s[i])]

\* String.prototype.includes
Includes(s, t) ==
    \E i \in 0..(Len(s) - Len(t)) : SubSeq(s, i + 1, i + Len(t)) = t

\* String.prototype.endsWith
EndsWith(s, t) ==
    /\ Len(s) >= Len(t)
    /\ SubSeq(s, Len(s) - Len(t) + 1, Len(s)) = t

\* String.prototype.replace with a string pattern: the first occurrence only
ReplaceFirst(s, t, r) ==
    IF Includes(s, t)
    THEN LET i == CHOOSE k \in 0..(Len(s) - Len(t)) :
                      /\ SubSeq(s, k + 1, k + Len(t)) = t
                      /\ \A j \in 0..(k - 1) : SubSeq(s, j + 1, j + Len(t)) # t
         IN  SubSeq(s, 1, i) \o r \o SubSeq(s, i + Len(t) + 1, Len(s))
    ELSE s

BlueDefault == <<"b","l","u","e","-","d","e","f","a","u","l","t">>
Grey == <<"g","r","e","y">>
All == <<"a","l","l">>
DotSvg == <<".","s","v","g">>
IconsDir == <<"icons/">>
Slash == <<"/">>
NameA == <<"A">>
NameB == <<"B">>
NameC == <<"C">>

\* CONFIG.iconFolders
IconFolders == <<BlueDefault, Grey>>

\* getBaseUrl(): origin and directory of the page, opaque here
BaseUrl == <<"https://host/site/">>

----------------------------------------------------------------------------
(* Icon records *)

\* the markup a successful fetch of the file at a path returns
SvgOf(path) == <<"<svg ">> \o path \o <<"/>">>

Icon(name, category, svg, path) ==
    [name |-> name, category |-> category, svg |-> svg, path |-> path,
     fullUrl |-> BaseUrl \o path]

\* a record as the hosting-API and directory-listing strategies build it
FolderIcon(folder, filename) ==
    LET path == IconsDir \o folder \o Slash \o filename
    IN  Icon(ReplaceFirst(filename, DotSvg, <<>>), folder, SvgOf(path), path)

NoIcon == [name |-> <<"(none)">>]

----------------------------------------------------------------------------
(* JSON: values, JSON.stringify and response.json() *)

\* a JavaScript string or number; a missing property reads as undefined
JStr(s) == [t |-> "str", v |-> s]
JNum(n) == [t |-> "num", v |-> n]
Undefined == [t |-> "undefined", v |-> <<>>]

\* an object is the sequence of its properties in insertion order
Prop(k, val) == [k |-> k, v |-> val]

\* property access o.key
Get(o, key) ==
    LET hits == {i \in 1..Len(o) : o[i].k = key}
    IN  IF hits = {} THEN Undefined
        ELSE o[CHOOSE i \in hits : \A j \in hits : i <= j].v

\* ToBoolean: undefined, the empty string and 0 are falsy
Truthy(val) ==
    CASE val.t = "str" -> val.v # <<>>
      [] val.t = "num" -> val.v # 0
      [] OTHER -> FALSE

\* the text of a JSON document, as its sequence of tokens
Tok(t, v) == [t |-> t, v |-> v]
LBrack == Tok("[", <<>>)
RBrack == Tok("]", <<>>)
LBrace == Tok("{", <<>>)
RBrace == Tok("}", <<>>)

RECURSIVE StringifyProps(_)
StringifyProps(o) ==
    IF o = <<>> THEN <<>>
    ELSE LET p == Head(o)
         IN  (IF p.v.t = "undefined" THEN <<>>
              ELSE <<Tok("key", p.k), Tok(p.v.t, p.v.v)>>)
             \o StringifyProps(Tail(o))

RECURSIVE StringifyItems(_)
StringifyItems(a) ==
    IF a = <<>> THEN <<>>
    ELSE <<LBrace>> \o StringifyProps(Head(a)) \o <<RBrace>>
         \o StringifyItems(Tail(a))

\* JSON.stringify of an array of objects
Stringify(a) == <<LBrack>> \o StringifyItems(a) \o <<RBrack>>

ParseFailed == [ok |-> FALSE, items |-> <<>>]

RECURSIVE ParseFrom(_, _, _, _, _)
\* the parser at token i, with the items read so far and, inside an object,
\* the properties read so far
ParseFrom(toks, i, items, inObj, props) ==
    IF i > Len(toks) THEN ParseFailed
    ELSE LET tok == toks[i]
         IN  IF inObj
             THEN IF tok.t = "}"
                  THEN ParseFrom(toks, i + 1, Append(items, props), FALSE, <<>>)
                  ELSE IF /\ tok.t = "key"
                          /\ i < Len(toks)
                          /\ toks[i + 1].t \in {"str", "num"}
                  THEN ParseFrom(toks, i + 2, items, TRUE,
                           Append(props,
                               Prop(tok.v, [t |-> toks[i + 1].t,
                                            v |-> toks[i + 1].v])))
                  ELSE ParseFailed
             ELSE IF tok.t = "]"
                  THEN IF i = Len(toks)
                       THEN [ok |-> TRUE, items |-> items]
                       ELSE ParseFailed
                  ELSE IF tok.t = "{"
                  THEN ParseFrom(toks, i + 1, items, TRUE, <<>>)
                  ELSE ParseFailed

\* response.json() read as an array of objects; ok is FALSE where the call
\* throws, or where the document is no array and iterating it throws
ParseJSON(toks) ==
    IF toks # <<>> /\ toks[1].t = "["
    THEN ParseFrom(toks, 2, <<>>, FALSE, <<>>)
    ELSE ParseFailed

----------------------------------------------------------------------------
(* icon-loader.js: the discovery strategies *)

\* what loadSVG returns for a failed fetch
Null == <<"null">>

\* loadSVG: srv gives, for each path the server knows, whether the fetch
\* succeeds ("ok"), succeeds with an empty body ("empty") or fails ("fail")
LoadSVG(srv, path) ==
    IF path \in DOMAIN srv
    THEN CASE srv[path] = "ok" -> SvgOf(path)
           [] srv[path] = "empty" -> <<>>
           [] OTHER -> Null
    ELSE Null

\* if (svgContent)
SvgLoaded(svg) == svg # Null /\ svg # <<>>

\* if (item.name && item.category && item.path)
IsIndexEntry(item) ==
    /\ Truthy(Get(item, "name"))
    /\ Truthy(Get(item, "category"))
    /\ Truthy(Get(item, "path"))

RECURSIVE LoadIndexItems(_, _, _)
\* the loop of tryIndexFile over the items of the index
LoadIndexItems(items, srv, icons) ==
    IF items = <<>> THEN icons
    ELSE LET item == Head(items)
             path == Get(item, "path").v
             svg == LoadSVG(srv, path)
         IN  IF IsIndexEntry(item) /\ SvgLoaded(svg)
             THEN LoadIndexItems(Tail(items), srv,
                      Append(icons, Icon(Get(item, "name").v,
                                         Get(item, "category").v, svg, path)))
             ELSE LoadIndexItems(Tail(items), srv, icons)

\* tryIndexFile: resp is the response to the fetch of icons-index.json
TryIndexFile(resp, srv) ==
    IF resp.kind # "ok" THEN <<>>
    ELSE LET indexData == ParseJSON(resp.body)
         IN  IF indexData.ok
             THEN LoadIndexItems(indexData.items, srv, <<>>)
             ELSE <<>>

RECURSIVE LoadFolderFilesStopAtFailure(_, _, _, _)
LoadFolderFilesStopAtFailure(folder, files, srv, icons) ==
    IF files = <<>> THEN icons
    ELSE LET icon == FolderIcon(folder, Head(files))
         IN  IF SvgLoaded(LoadSVG(srv, icon.path))
             THEN LoadFolderFilesStopAtFailure(folder, Tail(files), srv,
                                               Append(icons, icon))
             ELSE icons

RECURSIVE LoadFolderFiles(_, _, _, _)
\* the loop over the svg files found in a folder, in tryGitHubAPI and in
\* tryDirectoryListing
LoadFolderFiles(folder, files, srv, icons) ==
    IF files = <<>> THEN icons
    ELSE LET icon == FolderIcon(folder, Head(files))
         IN  IF SvgLoaded(LoadSVG(srv, icon.path))
             THEN LoadFolderFiles(folder, Tail(files), srv, Append(icons, icon))
             ELSE LoadFolderFiles(folder, Tail(files), srv, icons)

\* contents.filter(item => item.type === 'file' && item.name.endsWith('.svg'))
ApiSvgFiles(contents) ==
    LET files == SelectSeq(contents, LAMBDA item :
                     item.type = "file" /\ EndsWith(item.name, DotSvg))
    IN  [i \in 1..Len(files) |-> files[i].name]

RECURSIVE ApiFolders(_, _, _, _)
ApiFolders(folders, resps, srv, icons) ==
    IF folders = <<>> THEN icons
    ELSE LET resp == Head(resps)
         IN  ApiFolders(Tail(folders), Tail(resps), srv,
                 IF resp.kind = "ok"
                 THEN LoadFolderFiles(Head(folders), ApiSvgFiles(resp.contents),
                                      srv, icons)
                 ELSE icons)

\* tryGitHubAPI: onGitHub is hostname.includes('github.io'), resps the
\* responses of the contents API, one for each folder of CONFIG.iconFolders
TryGitHubAPI(onGitHub, resps, srv) ==
    IF ~onGitHub THEN <<>>
    ELSE ApiFolders(IconFolders, resps, srv, <<>>)

\* html.match(/href="([^"]*\.svg)"/g), then the capture of each match: the
\* page is the sequence of the href values of its anchors
ListingSvgFiles(hrefs) ==
    SelectSeq(hrefs, LAMBDA h : EndsWith(h, DotSvg))

RECURSIVE ListingFolders(_, _, _, _)
ListingFolders(folders, resps, srv, icons) ==
    IF folders = <<>> THEN icons
    ELSE LET resp == Head(resps)
         IN  ListingFolders(Tail(folders), Tail(resps), srv,
                 IF resp.kind = "ok"
                 THEN LoadFolderFiles(Head(folders), ListingSvgFiles(resp.hrefs),
                                      srv, icons)
                 ELSE icons)

\* tryDirectoryListing: resps are the responses to the fetch of each
\* folder's directory page
TryDirectoryListing(resps, srv) ==
    ListingFolders(IconFolders, resps, srv, <<>>)

\* the metadata record generateIndexFile puts first
IndexMetadata(n) ==
    << Prop("_generated", JNum(1762041600)),
       Prop("_timestamp", JStr(<<"2026-11-02T00:00:00.000Z">>)),
       Prop("_totalIcons", JNum(n)),
       Prop("_note", JStr(<<"Auto-generated by icon-loader.js.">>)) >>

\* icon => ({name, category, path})
IndexEntry(icon) ==
    << Prop("name", JStr(icon.name)),
       Prop("category", JStr(icon.category)),
       Prop("path", JStr(icon.path)) >>

\* generateIndexFile
GenerateIndexFile(discoveredIcons) ==
    Stringify(<<IndexMetadata(Len(discoveredIcons))>>
              \o [i \in 1..Len(discoveredIcons) |->
                     IndexEntry(discoveredIcons[i])])

----------------------------------------------------------------------------
(* app.js: render/filter layer *)

MatchesSearchNameOnly(icon, searchTerm) ==
    Includes(ToLowerCase(icon.name), searchTerm)

MatchesSearchCaseSensitive(icon, searchTerm) ==
    \/ Includes(icon.name, searchTerm)
    \/ Includes(icon.category, searchTerm)

\* matchesSearch of filterIcons
MatchesSearch(icon, searchTerm) ==
    \/ Includes(ToLowerCase(icon.name), searchTerm)
    \/ Includes(ToLowerCase(icon.category), searchTerm)

MatchesCategoryNoAll(icon, category) ==
    icon.category = category

\* matchesCategory of filterIcons
MatchesCategory(icon, category) ==
    category = All \/ icon.category = category

\* the value filterIcons assigns to filteredIcons
FilterResult(icons, searchValue, category) ==
    LET searchTerm == ToLowerCase(searchValue)
    IN  SelectSeq(icons, LAMBDA icon :
            MatchesSearch(icon, searchTerm) /\ MatchesCategory(icon, category))

RECURSIVE Distinct(_)
\* [...new Set(seq)]: the distinct values, each at its first occurrence
Distinct(seq) ==
    IF seq = <<>> THEN <<>>
    ELSE LET front == Distinct(SubSeq(seq, 1, Len(seq) - 1))
             last == seq[Len(seq)]
         IN  IF \E i \in 1..Len(front) : front[i] = last
             THEN front
             ELSE Append(front, last)

\* the grid items renderIcons writes: the name passed to openCopyModal,
\* the markup and the label
GridItems(filtered) ==
    [i \in 1..Len(filtered) |->
        [onclick |-> filtered[i].name, svg |-> filtered[i].svg,
         label |-> filtered[i].name]]

Grid(kind, items, n) == [kind |-> kind, items |-> items, n |-> n]

\* renderCategories: 'all' and the distinct categories of iconsData; only the
\* 'all' button gets the active class
RenderCategories ==
    /\ categoryButtons' =
           <<All>> \o Distinct([i \in 1..Len(iconsData) |-> iconsData[i].category])
    /\ activeButtons' = {1}

\* the grid element and the no-results element as renderIcons finds them
CurrentGrid ==
    [display |-> gridDisplay, content |-> gridContent,
     noResults |-> noResultsDisplay]

SetGrid(g) ==
    /\ gridDisplay' = g.display
    /\ gridContent' = g.content
    /\ noResultsDisplay' = g.noResults

\* renderIcons, reading the filtered list `filtered`, on the grid g: an empty
\* list hides the grid and leaves its content as it is
RenderIcons(filtered, g) ==
    IF Len(filtered) = 0
    THEN [display |-> "none", content |-> g.content, noResults |-> "block"]
    ELSE [display |-> "grid",
          content |-> Grid("icons", GridItems(filtered), Len(filtered)),
          noResults |-> "none"]

\* updateStats
UpdateStats(filtered) ==
    /\ totalCount' = Len(iconsData)
    /\ visibleCount' = Len(filtered)

\* filterIcons, with the search box holding searchValue
FilterIcons(searchValue, category) ==
    /\ filteredIcons' = FilterResult(iconsData, searchValue, category)
    /\ SetGrid(RenderIcons(filteredIcons', CurrentGrid))
    /\ UpdateStats(filteredIcons')
    /\ filterRan' = TRUE

\* init, on DOMContentLoaded
AppInit ==
    /\ ~appInited
    /\ appInited' = TRUE
    /\ RenderCategories
    /\ SetGrid(RenderIcons(filteredIcons, CurrentGrid))
    /\ UpdateStats(filteredIcons)
    /\ UNCHANGED <<iconsData, filteredIcons, currentCategory, searchInput,
                   modal, winVars, runVars, copyVars, rtVars, filterRan,
                   lastClicked>>

\* texts the user types into the search box
SearchTexts == {<<>>, <<"a">>, <<"B">>, <<"g","r">>}

\* the 'input' listener of the search box
SearchInput(text) ==
    /\ appInited
    /\ text # searchInput
    /\ searchInput' = text
    /\ FilterIcons(text, currentCategory)
    /\ UNCHANGED <<iconsData, currentCategory, appInited, catDom, modal,
                   winVars, runVars, copyVars, rtVars, lastClicked>>

\* the 'click' listener of the categories container, on button b
CategoryClick(b) ==
    /\ appInited
    /\ b \in 1..Len(categoryButtons)
    /\ activeButtons' = {b}
    /\ currentCategory' = categoryButtons[b]
    /\ FilterIcons(searchInput, currentCategory')
    /\ UNCHANGED <<iconsData, appInited, searchInput, categoryButtons, modal,
                   winVars, runVars, copyVars, rtVars, lastClicked>>

----------------------------------------------------------------------------
(* app.js: modal *)

ModalClosed == [display |-> "none", title |-> <<>>, svgCode |-> <<>>,
                filePath |-> <<>>, imgTag |-> <<>>]

\* iconsData.find(i => i.name === iconName)
FindByName(icons, iconName) ==
    LET hits == {i \in 1..Len(icons) : icons[i].name = iconName}
    IN  IF hits = {} THEN NoIcon
        ELSE icons[CHOOSE i \in hits : \A j \in hits : i <= j]

ImgTag(path, name) ==
    <<"<img src=\"">> \o path \o <<"\" alt=\"">> \o name \o <<"\" />">>

ModalTitle(name) == <<"Copy \"">> \o name \o <<"\" Icon">>

\* openCopyModal
OpenCopyModal(iconName) ==
    LET icon == FindByName(iconsData, iconName)
    IN  IF icon = NoIcon
        THEN modal' = modal
        ELSE modal' = [display |-> "block",
                       title |-> ModalTitle(icon.name),
                       svgCode |-> icon.svg,
                       filePath |-> icon.path,
                       imgTag |-> ImgTag(icon.path, icon.name)]

\* a click on grid item i: its onclick attribute calls openCopyModal
ClickIcon(i) ==
    /\ gridDisplay = "grid"
    /\ gridContent.kind = "icons"
    /\ i \in 1..Len(gridContent.items)
    /\ modal.display = "none"
    /\ OpenCopyModal(gridContent.items[i].onclick)
    /\ lastClicked' = filteredIcons[i]
    /\ UNCHANGED <<appVars, filterDom, catDom, winVars, runVars, copyVars,
                   rtVars, filterRan>>

\* names an open request may carry that no grid item carries
StrayNames == {<<"z">>, <<>>}

\* openCopyModal called with a name that is not a grid item's
OpenRequest(iconName) ==
    /\ iconName \in StrayNames
    /\ OpenCopyModal(iconName)
    /\ lastClicked' = NoIcon
    /\ UNCHANGED <<appVars, filterDom, catDom, winVars, runVars, copyVars,
                   rtVars, filterRan>>

\* closeCopyModal, from the close control
CloseCopyModal ==
    /\ modal.display = "block"
    /\ modal' = [modal EXCEPT !.display = "none"]
    /\ lastClicked' = NoIcon
    /\ UNCHANGED <<appVars, filterDom, catDom, winVars, runVars, copyVars,
                   rtVars, filterRan>>

\* the 'click' listener of the modal: target is the backdrop (the element
\* with id copyModal) or an element of the modal's body
ModalClick(target) ==
    /\ appInited
    /\ modal.display = "block"
    /\ target \in {"copyModal", "modalBody"}
    /\ IF target = "copyModal"
       THEN /\ modal' = [modal EXCEPT !.display = "none"]
            /\ lastClicked' = NoIcon
       ELSE UNCHANGED <<modal, lastClicked>>
    /\ UNCHANGED <<appVars, filterDom, catDom, winVars, runVars, copyVars,
                   rtVars, filterRan>>

----------------------------------------------------------------------------
(* app.js: clipboard helper *)

\* the elements of the modal whose text the copy buttons copy
CopyTargets == {"svgCode", "filePath", "imgTag"}

NotificationHidden == [text |-> "", show |-> FALSE]

ShowNotificationNoTimer(message) ==
    /\ notification' = [text |-> message, show |-> TRUE]
    /\ notifTimers' = notifTimers

\* showNotification: show the message and start the timer that hides it
ShowNotification(message) ==
    /\ notification' = [text |-> message, show |-> TRUE]
    /\ notifTimers' = notifTimers + 1

FreeCopySlots == {s \in 1..MaxCopies : copyPending[s] = "idle"}

\* copyToClipboard up to its await: the clipboard write is pending
CopyStart(s, elementId) ==
    /\ modal.display = "block"
    /\ s \in FreeCopySlots
    /\ \A t \in FreeCopySlots : s <= t
    /\ notifTimers + (MaxCopies - Cardinality(FreeCopySlots)) < MaxCopies
    /\ elementId \in CopyTargets
    /\ copyPending' = [copyPending EXCEPT ![s] = elementId]
    /\ UNCHANGED <<appVars, filterDom, catDom, modal, winVars, runVars,
                   notification, notifTimers, rtVars, filterRan, lastClicked>>

\* navigator.clipboard.writeText resolved
CopyResolve(s) ==
    /\ s \in 1..MaxCopies
    /\ copyPending[s] # "idle"
    /\ ShowNotification(copyPending[s])
    /\ copyPending' = [copyPending EXCEPT ![s] = "idle"]
    /\ UNCHANGED <<appVars, filterDom, catDom, modal, winVars, runVars,
                   rtVars, filterRan, lastClicked>>

\* the catch block: the textarea and document.execCommand('copy'), then
\* showNotification
FallbackCopy(message) == ShowNotification(message)

\* navigator.clipboard.writeText rejected (denied)
CopyReject(s) ==
    /\ s \in 1..MaxCopies
    /\ copyPending[s] # "idle"
    /\ FallbackCopy(copyPending[s])
    /\ copyPending' = [copyPending EXCEPT ![s] = "idle"]
    /\ UNCHANGED <<appVars, filterDom, catDom, modal, winVars, runVars,
                   rtVars, filterRan, lastClicked>>

\* copyToClipboard where navigator.clipboard is undefined: the call throws
\* inside the try block and the catch block runs at once
CopyUnsupported(elementId) ==
    /\ modal.display = "block"
    /\ notifTimers + (MaxCopies - Cardinality(FreeCopySlots)) < MaxCopies
    /\ elementId \in CopyTargets
    /\ FallbackCopy(elementId)
    /\ UNCHANGED <<appVars, filterDom, catDom, modal, winVars, runVars,
                   copyPending, rtVars, filterRan, lastClicked>>

\* the callback of showNotification's setTimeout
NotifTimerFires ==
    /\ notifTimers > 0
    /\ notifTimers' = notifTimers - 1
    /\ notification' = [notification EXCEPT !.show = FALSE]
    /\ UNCHANGED <<appVars, filterDom, catDom, modal, winVars, runVars,
                   copyPending, rtVars, filterRan, lastClicked>>

----------------------------------------------------------------------------
(* icon-loader.js: discovery runs *)

\* The strategies touch no shared state between their first fetch and their
\* return, so a strategy is one step, taken when it returns.  A run in
\* progress is [kind, pc, log, res]: what started it ("load", "refresh",
\* "check"), the strategy in flight, the strategies started so far and the
\* results of those that returned.

SmartDiscoverStartAlwaysIndex(skip) == "index"

\* smartDiscoverIcons up to its first await: the first strategy called
SmartDiscoverStart(skip) == IF ~skip THEN "index" ELSE "api"

NewRun(kind, skip) ==
    LET first == SmartDiscoverStart(skip)
    IN  [kind |-> kind, pc |-> first, log |-> <<first>>, res |-> <<>>]

SmartDiscoverNextNoStop(pc, icons) ==
    CASE pc = "index" -> [done |-> FALSE, pc |-> "api", ret |-> <<>>]
      [] pc = "api" -> [done |-> FALSE, pc |-> "listing", ret |-> <<>>]
      [] OTHER -> [done |-> TRUE, pc |-> "listing", ret |-> icons]

\* smartDiscoverIcons after the strategy pc returned icons: return them, or
\* call the next strategy, or return [] after the last
SmartDiscoverNext(pc, icons) ==
    IF Len(icons) > 0 THEN [done |-> TRUE, pc |-> pc, ret |-> icons]
    ELSE CASE pc = "index" -> [done |-> FALSE, pc |-> "api", ret |-> <<>>]
           [] pc = "api" -> [done |-> FALSE, pc |-> "listing", ret |-> <<>>]
           [] OTHER -> [done |-> TRUE, pc |-> "listing", ret |-> <<>>]

LoadingMessage == Grid("loading", <<>>, 0)
NoIconsPanelMissing == Grid("loading", <<>>, 0)
\* the panel with the setup help and the Try Again button
NoIconsPanel == Grid("noicons", <<>>, 0)
SuccessMessage(n) == Grid("success", <<>>, n)

\* lastDone records the run that ended last: its kind, the strategies it
\* started, what each returned, what smartDiscoverIcons returned and the
\* content and the display style of the grid when the run ended
NoRun == [kind |-> "none", log |-> <<>>, res |-> <<>>, ret |-> <<>>,
          grid |-> Grid("initial", <<>>, 0), display |-> "css"]

RemoveAt(seq, r) == SubSeq(seq, 1, r - 1) \o SubSeq(seq, r + 1, Len(seq))

\* the room the bounds leave for one more run
MayStartRun == Len(runs) + renderTimers < MaxRuns

\* initializeIconLibrary up to its await, called on DOMContentLoaded: the
\* loading message, then smartDiscoverIcons
PageLoad ==
    /\ ~pageLoadStarted
    /\ MayStartRun
    /\ pageLoadStarted' = TRUE
    /\ gridContent' = LoadingMessage
    /\ runs' = Append(runs, NewRun("load", skipIndex))
    /\ UNCHANGED <<appVars, searchInput, gridDisplay, noResultsDisplay,
                   totalCount, visibleCount, catDom, modal, winVars,
                   githubPages, lastDone, renderTimers, copyVars, rtVars,
                   filterRan, lastClicked>>

\* window.refreshIcons up to the await inside initializeIconLibrary
RefreshIcons ==
    /\ pageLoadStarted
    /\ MayStartRun
    /\ winIconsData' = <<>>
    /\ winFilteredIcons' = <<>>
    /\ skipIndex' = TRUE
    /\ gridContent' = LoadingMessage
    /\ runs' = Append(runs, NewRun("refresh", skipIndex'))
    /\ UNCHANGED <<appVars, searchInput, gridDisplay, noResultsDisplay,
                   totalCount, visibleCount, catDom, modal, githubPages,
                   pageLoadStarted, lastDone, renderTimers, copyVars, rtVars,
                   filterRan, lastClicked>>

\* window.checkForUpdates up to its await
CheckForUpdates ==
    /\ pageLoadStarted
    /\ MayStartRun
    /\ skipIndex' = TRUE
    /\ runs' = Append(runs, NewRun("check", skipIndex'))
    /\ UNCHANGED <<appVars, filterDom, catDom, modal, winIconsData,
                   winFilteredIcons, githubPages, pageLoadStarted, lastDone,
                   renderTimers, copyVars, rtVars, filterRan, lastClicked>>

\* window.iconsData = discoveredIcons; window.filteredIcons = [...]: these
\* assign properties of the window object.  iconsData and filteredIcons of
\* app.js are top-level let bindings, which are not properties of window, so
\* the assignments leave them as they are.
StoreIcons(icons) ==
    /\ winIconsData' = icons
    /\ winFilteredIcons' = icons
    /\ UNCHANGED <<iconsData, filteredIcons>>

\* initializeIconLibrary after smartDiscoverIcons returned icons
InitializeTail(icons) ==
    IF Len(icons) = 0
    THEN /\ gridContent' = NoIconsPanel
         /\ UNCHANGED <<iconsData, filteredIcons, winIconsData,
                        winFilteredIcons, gridDisplay, noResultsDisplay,
                        totalCount, visibleCount, catDom, renderTimers>>
    ELSE /\ StoreIcons(icons)
         \* renderCategories, renderIcons and updateStats of app.js
         /\ categoryButtons' =
                <<All>> \o Distinct([i \in 1..Len(iconsData') |->
                                        iconsData'[i].category])
         /\ activeButtons' = {1}
         /\ LET g == RenderIcons(filteredIcons', CurrentGrid)
            IN  /\ gridDisplay' = g.display
                /\ noResultsDisplay' = g.noResults
         /\ totalCount' = Len(iconsData')
         /\ visibleCount' = Len(filteredIcons')
         \* the success message, and the timer that calls renderIcons
         /\ gridContent' = SuccessMessage(Len(icons))
         /\ renderTimers' = renderTimers + 1

\* run r ends: smartDiscoverIcons returned icons to its caller
Finish(r, icons) ==
    /\ runs' = RemoveAt(runs, r)
    /\ CASE runs[r].kind = "load" ->
              /\ InitializeTail(icons)
              /\ UNCHANGED skipIndex
         [] runs[r].kind = "refresh" ->
              \* the then-callback of refreshIcons
              /\ InitializeTail(icons)
              /\ skipIndex' = FALSE
         [] OTHER ->
              \* checkForUpdates compares the names and logs the difference
              /\ skipIndex' = FALSE
              /\ UNCHANGED <<iconsData, filteredIcons, winIconsData,
                             winFilteredIcons, gridDisplay, gridContent,
                             noResultsDisplay, totalCount, visibleCount,
                             catDom, renderTimers>>
    /\ lastDone' = [kind |-> runs[r].kind, log |-> runs[r].log,
                    res |-> Append(runs[r].res, icons), ret |-> icons,
                    grid |-> gridContent', display |-> gridDisplay']
    /\ UNCHANGED <<currentCategory, appInited, searchInput, modal,
                   githubPages, pageLoadStarted, copyVars, rtVars, filterRan,
                   lastClicked>>

\* the strategy in flight of run r returned icons
StrategyReturns(r, icons) ==
    LET nx == SmartDiscoverNext(runs[r].pc, icons)
    IN  IF nx.done
        THEN Finish(r, nx.ret)
        ELSE /\ runs' = [runs EXCEPT ![r] =
                            [@ EXCEPT !.pc = nx.pc,
                                      !.log = Append(@, nx.pc),
                                      !.res = Append(@, icons)]]
             /\ UNCHANGED <<appVars, filterDom, catDom, modal, winVars,
                            githubPages, pageLoadStarted, lastDone,
                            renderTimers, copyVars, rtVars, filterRan,
                            lastClicked>>

\* the file the page's server knows in each folder
FileA == NameA \o DotSvg
PathOf(folder, filename) == IconsDir \o folder \o Slash \o filename
ServerPaths == {PathOf(BlueDefault, FileA), PathOf(Grey, FileA)}
Servers == [ServerPaths -> {"ok", "empty", "fail"}]

\* responses to the fetch of icons-index.json: a rejected fetch, a
\* non-success status, and documents: generated indexes and a truncated one
IndexResponses ==
    { [kind |-> "reject", body |-> <<>>],
      [kind |-> "notok", body |-> <<>>],
      [kind |-> "ok", body |-> <<LBrack, LBrace>>],
      [kind |-> "ok",
       body |-> GenerateIndexFile(<<FolderIcon(Grey, FileA)>>)],
      [kind |-> "ok",
       body |-> GenerateIndexFile(<<FolderIcon(BlueDefault, FileA),
                                    FolderIcon(Grey, FileA)>>)] }

ApiEntry(type, name) == [type |-> type, name |-> name]

\* responses of the contents API for one folder
ApiResponses ==
    { [kind |-> "notok", contents |-> <<>>],
      [kind |-> "throws", contents |-> <<>>],
      [kind |-> "ok", contents |-> <<>>],
      [kind |-> "ok", contents |-> <<ApiEntry("dir", FileA)>>],
      [kind |-> "ok", contents |-> <<ApiEntry("file", FileA)>>] }

\* responses to the fetch of one folder's directory page
ListingResponses ==
    { [kind |-> "notok", hrefs |-> <<>>],
      [kind |-> "throws", hrefs |-> <<>>],
      [kind |-> "ok", hrefs |-> <<<<"..">>>>],
      [kind |-> "ok", hrefs |-> <<FileA>>] }

\* what each strategy can return, over every response and every server
IndexOutcomes ==
    {TryIndexFile(resp, srv) : resp \in IndexResponses, srv \in Servers}

ApiOutcomes(onGitHub) ==
    {TryGitHubAPI(onGitHub, <<b, g>>, srv) :
        b \in ApiResponses, g \in ApiResponses, srv \in Servers}

ApiOutcomesOnGitHub == ApiOutcomes(TRUE)
ApiOutcomesElsewhere == ApiOutcomes(FALSE)

ListingOutcomes ==
    {TryDirectoryListing(<<b, g>>, srv) :
        b \in ListingResponses, g \in ListingResponses, srv \in Servers}

\* tryIndexFile of run r returns icons
IndexReturns(r, icons) ==
    /\ r \in 1..Len(runs)
    /\ runs[r].pc = "index"
    /\ icons \in IndexOutcomes
    /\ StrategyReturns(r, icons)

\* tryGitHubAPI of run r returns icons
ApiReturns(r, icons) ==
    /\ r \in 1..Len(runs)
    /\ runs[r].pc = "api"
    /\ icons \in (IF githubPages THEN ApiOutcomesOnGitHub
                  ELSE ApiOutcomesElsewhere)
    /\ StrategyReturns(r, icons)

\* tryDirectoryListing of run r returns icons
ListingReturns(r, icons) ==
    /\ r \in 1..Len(runs)
    /\ runs[r].pc = "listing"
    /\ icons \in ListingOutcomes
    /\ StrategyReturns(r, icons)

\* the callback of the setTimeout of initializeIconLibrary: renderIcons
RenderTimerFires ==
    /\ renderTimers > 0
    /\ renderTimers' = renderTimers - 1
    /\ SetGrid(RenderIcons(filteredIcons, CurrentGrid))
    /\ UNCHANGED <<appVars, searchInput, totalCount, visibleCount, catDom,
                   modal, winVars, githubPages, pageLoadStarted, runs,
                   lastDone, copyVars, rtVars, filterRan, lastClicked>>

----------------------------------------------------------------------------
(* The render/filter layer and the modal over an arbitrary icon collection *)

\* the records collections are drawn from
IconUniverse ==
    { FolderIcon(BlueDefault, NameA \o DotSvg),
      FolderIcon(Grey, NameB \o DotSvg),
      FolderIcon(BlueDefault, NameC \o DotSvg),
      FolderIcon(Grey, NameA \o DotSvg) }

SeqsUpTo(S, n) == UNION {[1..k -> S] : k \in 0..n}

Collections == SeqsUpTo(IconUniverse, MaxIcons)

\* the page once both scripts have run, before DOMContentLoaded, but for
\* iconsData and the host
InitCommon ==
    /\ filteredIcons = <<>>
    /\ currentCategory = All
    /\ appInited = FALSE
    /\ searchInput = <<>>
    /\ categoryButtons = <<>>
    /\ activeButtons = {}
    /\ gridDisplay = "css"
    /\ gridContent = Grid("initial", <<>>, 0)
    /\ noResultsDisplay = "css"
    /\ totalCount = 0
    /\ visibleCount = 0
    /\ modal = ModalClosed
    /\ notification = NotificationHidden
    /\ winIconsData = <<>>
    /\ winFilteredIcons = <<>>
    /\ skipIndex = FALSE
    /\ pageLoadStarted = FALSE
    /\ runs = <<>>
    /\ lastDone = NoRun
    /\ renderTimers = 0
    /\ notifTimers = 0
    /\ copyPending = [s \in 1..MaxCopies |-> "idle"]
    /\ rtPhase = "idle"
    /\ rtIcons = <<>>
    /\ rtIndex = <<>>
    /\ rtServer = <<>>
    /\ rtLoaded = <<>>
    /\ filterRan = FALSE
    /\ lastClicked = NoIcon

\* the page as the repository ships it: let iconsData = []
InitPage ==
    /\ iconsData = <<>>
    /\ githubPages \in BOOLEAN
    /\ InitCommon

\* window.location.reload(), the Try Again button of the no-icons panel:
\* the page starts over
Reload ==
    /\ gridContent = NoIconsPanel
    /\ gridDisplay # "none"
    /\ iconsData' = <<>>
    /\ filteredIcons' = <<>>
    /\ currentCategory' = All
    /\ appInited' = FALSE
    /\ searchInput' = <<>>
    /\ categoryButtons' = <<>>
    /\ activeButtons' = {}
    /\ gridDisplay' = "css"
    /\ gridContent' = Grid("initial", <<>>, 0)
    /\ noResultsDisplay' = "css"
    /\ totalCount' = 0
    /\ visibleCount' = 0
    /\ modal' = ModalClosed
    /\ notification' = NotificationHidden
    /\ winIconsData' = <<>>
    /\ winFilteredIcons' = <<>>
    /\ skipIndex' = FALSE
    /\ pageLoadStarted' = FALSE
    /\ runs' = <<>>
    /\ lastDone' = NoRun
    /\ renderTimers' = 0
    /\ notifTimers' = 0
    /\ copyPending' = [s \in 1..MaxCopies |-> "idle"]
    /\ filterRan' = FALSE
    /\ lastClicked' = NoIcon
    /\ UNCHANGED <<githubPages, rtVars>>

Next ==
    \/ AppInit
    \/ PageLoad
    \/ RefreshIcons
    \/ CheckForUpdates
    \/ \E r \in 1..MaxRuns, icons \in IndexOutcomes : IndexReturns(r, icons)
    \/ \E r \in 1..MaxRuns, icons \in ApiOutcomesOnGitHub :
           ApiReturns(r, icons)
    \/ \E r \in 1..MaxRuns, icons \in ListingOutcomes :
           ListingReturns(r, icons)
    \/ RenderTimerFires
    \/ \E text \in SearchTexts : SearchInput(text)
    \/ \E b \in 1..(MaxIcons + 1) : CategoryClick(b)
    \/ Reload

\* the page as shipped, under page load, refreshes, update checks and the
\* user's search and category events
Spec == InitPage /\ [][Next]_vars

\* the render/filter layer over an icon collection drawn from Collections
InitUI ==
    /\ iconsData \in Collections
    /\ githubPages = FALSE
    /\ InitCommon

NextUI ==
    \/ AppInit
    \/ \E text \in SearchTexts : SearchInput(text)
    \/ \E b \in 1..(MaxIcons + 1) : CategoryClick(b)
    \/ \E i \in 1..MaxIcons : ClickIcon(i)
    \/ \E n \in StrayNames : OpenRequest(n)
    \/ CloseCopyModal
    \/ \E target \in {"copyModal", "modalBody"} : ModalClick(target)

SpecUI == InitUI /\ [][NextUI]_vars

\* the copy buttons of the modal, over a collection of at most one record
InitCopy == InitUI /\ Len(iconsData) <= 1

NextCopy ==
    \/ AppInit
    \/ \E b \in 1..2 : CategoryClick(b)
    \/ \E i \in 1..MaxIcons : ClickIcon(i)
    \/ CloseCopyModal
    \/ \E s \in 1..MaxCopies, e \in CopyTargets : CopyStart(s, e)
    \/ \E e \in CopyTargets : CopyUnsupported(e)
    \/ \E s \in 1..MaxCopies : CopyResolve(s)
    \/ \E s \in 1..MaxCopies : CopyReject(s)
    \/ NotifTimerFires

SpecCopy == InitCopy /\ [][NextCopy]_vars

\* the event loop runs every timer callback that is due, and a clipboard
\* write settles one way or the other
FairSpecCopy ==
    /\ SpecCopy
    /\ WF_vars(NotifTimerFires)
    /\ \A s \in 1..MaxCopies : WF_vars(CopyResolve(s) \/ CopyReject(s))

----------------------------------------------------------------------------
(* The page over an icon collection, under discovery runs *)

\* the collections app.js's iconsData holds in this specification
PageCollections ==
    { <<FolderIcon(Grey, NameA \o DotSvg)>>,
      <<FolderIcon(BlueDefault, NameA \o DotSvg),
        FolderIcon(Grey, NameB \o DotSvg)>> }

InitPageWithIcons ==
    /\ iconsData \in PageCollections
    /\ githubPages = FALSE
    /\ InitCommon

NextPageWithIcons ==
    \/ AppInit
    \/ PageLoad
    \/ RefreshIcons
    \/ \E r \in 1..MaxRuns, icons \in IndexOutcomes : IndexReturns(r, icons)
    \/ \E r \in 1..MaxRuns, icons \in ApiOutcomesElsewhere :
           ApiReturns(r, icons)
    \/ \E r \in 1..MaxRuns, icons \in ListingOutcomes :
           ListingReturns(r, icons)
    \/ RenderTimerFires
    \/ \E text \in SearchTexts : SearchInput(text)
    \/ \E b \in 1..(MaxIcons + 1) : CategoryClick(b)

\* the render/filter layer with its collection in place, under page load,
\* refreshes and the user's search and category events
SpecPageWithIcons == InitPageWithIcons /\ [][NextPageWithIcons]_vars

----------------------------------------------------------------------------
(* The index file, generated from a drawn collection and loaded again *)

FileB == NameB \o DotSvg

\* records the strategies can build: the hosting API lists A.svg, B.svg and
\* a file whose whole name is .svg
RoundTripUniverse ==
    { FolderIcon(BlueDefault, FileA),
      FolderIcon(Grey, FileA),
      FolderIcon(Grey, FileB),
      FolderIcon(BlueDefault, DotSvg) }

RoundTripPaths == {icon.path : icon \in RoundTripUniverse}

InitRoundTrip ==
    /\ rtIcons \in SeqsUpTo(RoundTripUniverse, MaxIcons)
    /\ rtPhase = "drawn"
    /\ rtIndex = <<>>
    /\ rtServer = <<>>
    /\ rtLoaded = <<>>
    /\ iconsData = <<>>
    /\ githubPages = TRUE
    /\ filteredIcons = <<>>
    /\ currentCategory = All
    /\ appInited = FALSE
    /\ searchInput = <<>>
    /\ categoryButtons = <<>>
    /\ activeButtons = {}
    /\ gridDisplay = "css"
    /\ gridContent = Grid("initial", <<>>, 0)
    /\ noResultsDisplay = "css"
    /\ totalCount = 0
    /\ visibleCount = 0
    /\ modal = ModalClosed
    /\ notification = NotificationHidden
    /\ winIconsData = <<>>
    /\ winFilteredIcons = <<>>
    /\ skipIndex = FALSE
    /\ pageLoadStarted = FALSE
    /\ runs = <<>>
    /\ lastDone = NoRun
    /\ renderTimers = 0
    /\ notifTimers = 0
    /\ copyPending = [s \in 1..MaxCopies |-> "idle"]
    /\ filterRan = FALSE
    /\ lastClicked = NoIcon

\* generateIndexFile applied to the collection
GenerateIndex ==
    /\ rtPhase = "drawn"
    /\ rtPhase' = "generated"
    /\ rtIndex' = GenerateIndexFile(rtIcons)
    /\ UNCHANGED <<appVars, filterDom, catDom, modal, winVars, runVars,
                   copyVars, rtIcons, rtServer, rtLoaded, filterRan,
                   lastClicked>>

\* tryIndexFile where icons-index.json is the generated document and the
\* server answers the file fetches as srv says
LoadIndex(srv) ==
    /\ rtPhase = "generated"
    /\ rtPhase' = "loaded"
    /\ rtServer' = srv
    /\ rtLoaded' = TryIndexFile([kind |-> "ok", body |-> rtIndex], srv)
    /\ UNCHANGED <<appVars, filterDom, catDom, modal, winVars, runVars,
                   copyVars, rtIcons, rtIndex, filterRan, lastClicked>>

NextRoundTrip ==
    \/ GenerateIndex
    \/ \E srv \in [RoundTripPaths -> {"ok", "empty", "fail"}] : LoadIndex(srv)

SpecRoundTrip == InitRoundTrip /\ [][NextRoundTrip]_vars

----------------------------------------------------------------------------
(* The three strategies applied to a drawn listing of files *)

\* what an index file, an API response or a directory page can list: a file
\* of a folder; a listing may name the same file more than once
ListableFiles ==
    { <<BlueDefault, FileA>>, <<BlueDefault, DotSvg>>,
      <<Grey, FileA>>, <<Grey, FileB>> }

ListedPaths == {PathOf(f[1], f[2]) : f \in ListableFiles}

\* the file names a listing gives for one folder, in the order it gives them
FilesOf(listed, folder) ==
    LET sel == SelectSeq(listed, LAMBDA f : f[1] = folder)
    IN  [i \in 1..Len(sel) |-> sel[i][2]]

\* rtIcons is the listing drawn: a sequence of <<folder, file name>>
InitStrategies ==
    /\ rtIcons \in SeqsUpTo(ListableFiles, MaxIcons)
    /\ rtPhase = "listed"
    /\ rtIndex = <<>>
    /\ rtServer = <<>>
    /\ rtLoaded = <<>>
    /\ iconsData = <<>>
    /\ githubPages = TRUE
    /\ filteredIcons = <<>>
    /\ currentCategory = All
    /\ appInited = FALSE
    /\ searchInput = <<>>
    /\ categoryButtons = <<>>
    /\ activeButtons = {}
    /\ gridDisplay = "css"
    /\ gridContent = Grid("initial", <<>>, 0)
    /\ noResultsDisplay = "css"
    /\ totalCount = 0
    /\ visibleCount = 0
    /\ modal = ModalClosed
    /\ notification = NotificationHidden
    /\ winIconsData = <<>>
    /\ winFilteredIcons = <<>>
    /\ skipIndex = FALSE
    /\ pageLoadStarted = FALSE
    /\ runs = <<>>
    /\ lastDone = NoRun
    /\ renderTimers = 0
    /\ notifTimers = 0
    /\ copyPending = [s \in 1..MaxCopies |-> "idle"]
    /\ filterRan = FALSE
    /\ lastClicked = NoIcon

\* tryIndexFile where icons-index.json lists the files drawn, in the format
\* generateIndexFile writes
IndexFileStrategy(srv) ==
    /\ rtPhase = "listed"
    /\ rtPhase' = "index"
    /\ rtServer' = srv
    /\ rtIndex' = GenerateIndexFile([i \in 1..Len(rtIcons) |->
                      FolderIcon(rtIcons[i][1], rtIcons[i][2])])
    /\ rtLoaded' = TryIndexFile([kind |-> "ok", body |-> rtIndex'], srv)
    /\ UNCHANGED <<appVars, filterDom, catDom, modal, winVars, runVars,
                   copyVars, rtIcons, filterRan, lastClicked>>

\* tryGitHubAPI where the contents API lists, for each folder, the files drawn
GitHubAPIStrategy(srv) ==
    /\ rtPhase = "listed"
    /\ rtPhase' = "api"
    /\ rtServer' = srv
    /\ LET contents(folder) ==
               LET files == FilesOf(rtIcons, folder)
               IN  [i \in 1..Len(files) |-> ApiEntry("file", files[i])]
           resps == [k \in 1..Len(IconFolders) |->
                        [kind |-> "ok", contents |-> contents(IconFolders[k])]]
       IN  rtLoaded' = TryGitHubAPI(TRUE, resps, srv)
    /\ UNCHANGED <<appVars, filterDom, catDom, modal, winVars, runVars,
                   copyVars, rtIcons, rtIndex, filterRan, lastClicked>>

\* tryDirectoryListing where each folder's page links the files drawn
DirectoryListingStrategy(srv) ==
    /\ rtPhase = "listed"
    /\ rtPhase' = "listing"
    /\ rtServer' = srv
    /\ LET resps == [k \in 1..Len(IconFolders) |->
                        [kind |-> "ok",
                         hrefs |-> FilesOf(rtIcons, IconFolders[k])]]
       IN  rtLoaded' = TryDirectoryListing(resps, srv)
    /\ UNCHANGED <<appVars, filterDom, catDom, modal, winVars, runVars,
                   copyVars, rtIcons, rtIndex, filterRan, lastClicked>>

FileServers == [ListedPaths -> {"ok", "empty", "fail"}]

NextStrategies ==
    \/ \E srv \in FileServers : IndexFileStrategy(srv)
    \/ \E srv \in FileServers : GitHubAPIStrategy(srv)
    \/ \E srv \in FileServers : DirectoryListingStrategy(srv)

SpecStrategies == InitStrategies /\ [][NextStrategies]_vars

----------------------------------------------------------------------------
(* Properties of the render/filter layer *)

\* the two predicates of the filter, as the specification words them
Satisfies(icon, text, category) ==
    /\ category = All \/ icon.category = category
    /\ \/ Includes(ToLowerCase(icon.name), ToLowerCase(text))
       \/ Includes(ToLowerCase(icon.category), ToLowerCase(text))

\* view holds exactly the records of coll that satisfy both predicates, in
\* the order of coll
IsFilteredView(view, coll, text, category) ==
    LET I == {i \in 1..Len(coll) : Satisfies(coll[i], text, category)}
        Nth(k) == CHOOSE i \in I : Cardinality({j \in I : j <= i}) = k
    IN  /\ Len(view) = Cardinality(I)
        /\ \A k \in 1..Len(view) : view[k] = coll[Nth(k)]

\* C1: once filterIcons has run, the filtered view is exactly the records of
\* the collection, in collection order, whose category is the selected one
\* (or the selection is 'all') and whose lower-cased name or category
\* contains the lower-cased search text.
C1_FilteredViewExact ==
    filterRan =>
        IsFilteredView(filteredIcons, iconsData, searchInput, currentCategory)

C1_Witness ==
    /\ filterRan
    /\ searchInput = <<"g","r">>
    /\ currentCategory = Grey
    /\ Len(filteredIcons) > 0
    /\ Len(filteredIcons) < Len(iconsData)

ExampleA == FolderIcon(BlueDefault, NameA \o DotSvg)
ExampleB == FolderIcon(Grey, NameB \o DotSvg)
ExampleC == FolderIcon(BlueDefault, NameC \o DotSvg)

ExampleScenario ==
    /\ filterRan
    /\ iconsData = <<ExampleA, ExampleB, ExampleC>>
    /\ currentCategory = BlueDefault
    /\ searchInput = <<"a">>

\* C2, as claimed: in the example scenario (A and C in blue-default, B in
\* grey, category blue-default selected, search text 'a') the filtered view
\* is the single record A.
C2_ExampleYieldsOnlyA ==
    ExampleScenario => filteredIcons = <<ExampleA>>

\* C2, amended: in the example scenario the filtered view is the records A
\* and C, in that order: the category text of C, 'blue-default', contains
\* 'a', so C matches the search as well.
C2_ExampleYieldsAandC ==
    ExampleScenario => filteredIcons = <<ExampleA, ExampleC>>

C2_Witness == ExampleScenario /\ gridContent.kind = "icons"

\* C9: with an empty search text and category 'all', the filtered view is
\* the whole collection, record for record and in the same order.
C9_EmptySearchAllIsIdentity ==
    (filterRan /\ searchInput = <<>> /\ currentCategory = All)
        => filteredIcons = iconsData

C9_Witness ==
    /\ filterRan
    /\ searchInput = <<>>
    /\ currentCategory = All
    /\ Len(iconsData) >= 2
    /\ filteredIcons = iconsData

----------------------------------------------------------------------------
(* Properties of the modal and the clipboard helper *)

\* C7, as claimed: while the modal is open after a click on a grid item, its
\* title, markup, path and embed snippet are those of the record of that
\* grid item.
C7_ModalShowsClickedRecord ==
    (modal.display = "block" /\ lastClicked # NoIcon) =>
        /\ modal.title = ModalTitle(lastClicked.name)
        /\ modal.svgCode = lastClicked.svg
        /\ modal.filePath = lastClicked.path
        /\ modal.imgTag = ImgTag(lastClicked.path, lastClicked.name)

\* C8: every copy operation, on either path, shows the notification, and a
\* shown notification is hidden again without further user action.
C8_NotificationShownThenHidden ==
    /\ \A s \in 1..MaxCopies :
          (copyPending[s] # "idle") ~>
              (copyPending[s] = "idle" /\ notification.show)
    /\ notification.show ~> ~notification.show

C8_Witness ==
    /\ notification.show
    /\ notifTimers = 1
    /\ \E s \in 1..MaxCopies : copyPending[s] # "idle"

----------------------------------------------------------------------------
(* Properties of the discovery pipeline *)

StrategyOrder == <<"index", "api", "listing">>

\* log is a run of consecutive strategies of the fixed order, from the index
\* file or, where the index is skipped, from the hosting API
InFixedOrder(log) ==
    \E k \in 1..2 :
        /\ k + Len(log) - 1 <= Len(StrategyOrder)
        /\ log = SubSeq(StrategyOrder, k, k + Len(log) - 1)

AllEmpty(res) == \A i \in 1..Len(res) : res[i] = <<>>

\* C3: a run attempts the strategies in the order index file, hosting API,
\* directory listing; it starts a strategy only after every earlier one
\* returned an empty result, and it returns the first non-empty result (an
\* empty one only after the directory listing returned empty).
C3_FirstNonEmptyStrategyWins ==
    /\ \A r \in 1..Len(runs) :
          /\ InFixedOrder(runs[r].log)
          /\ Len(runs[r].res) = Len(runs[r].log) - 1
          /\ runs[r].pc = runs[r].log[Len(runs[r].log)]
          /\ AllEmpty(runs[r].res)
    /\ lastDone.kind # "none" =>
          /\ InFixedOrder(lastDone.log)
          /\ Len(lastDone.res) = Len(lastDone.log)
          /\ AllEmpty(SubSeq(lastDone.res, 1, Len(lastDone.res) - 1))
          /\ lastDone.ret = lastDone.res[Len(lastDone.res)]
          /\ lastDone.ret = <<>> =>
                 lastDone.log[Len(lastDone.log)] = "listing"

C3_Witness ==
    /\ lastDone.kind = "load"
    /\ lastDone.log = <<"index", "api">>
    /\ lastDone.res[1] = <<>>
    /\ Len(lastDone.ret) > 0

\* C4: a run of initializeIconLibrary in which every strategy returned an
\* empty result ends with the no-icons panel in the grid, not with the
\* loading message, a success message or rendered icons.
C4_AllEmptyShowsNoIconsPanel ==
    (/\ lastDone.kind \in {"load", "refresh"}
     /\ AllEmpty(lastDone.res)) => lastDone.grid.kind = "noicons"

C4_Witness ==
    /\ lastDone.kind = "load"
    /\ lastDone.log = StrategyOrder
    /\ AllEmpty(lastDone.res)
    /\ gridContent.kind = "noicons"

\* C5, as claimed: after a successful discovery run on page load, the icon
\* list the render/filter layer reads (iconsData, filteredIcons) is the
\* collection the pipeline stored (window.iconsData, window.filteredIcons),
\* and the counts reflect it.
C5_RenderLayerReadsDiscoveredIcons ==
    (lastDone.kind = "load" /\ Len(lastDone.ret) > 0) =>
        /\ iconsData = winIconsData
        /\ filteredIcons = winFilteredIcons
        /\ totalCount = Len(winIconsData)

\* C10, as claimed: no two discovery runs are in progress at the same time.
C10_OneRunAtATime == Len(runs) <= 1

\* C11, as claimed: the page-global icon list (window.iconsData) changes
\* only in the step in which a discovery run ends with a non-empty result,
\* and then to that whole result; so during a refresh it holds the prior
\* collection until the new one replaces it, and a refresh that finds no
\* icons leaves the prior collection in place.  (A reload starts the page
\* over and is no change of the list within a page.)
C11_ListChangesOnlyByWholeSwap ==
    [][winIconsData' # winIconsData =>
          \/ /\ Len(runs') < Len(runs)
             /\ Len(lastDone'.ret) > 0
             /\ winIconsData' = lastDone'.ret
          \/ pageLoadStarted /\ ~pageLoadStarted']_vars

\* C12, as claimed: between the handlers of any two events the filtered view
\* is the filter predicate applied to the icon collection with the text of
\* the search box and the selected category; it is stated of the list the
\* render layer reads and of the list the discovery run stores.
C12_FilteredViewFollowsFilterState ==
    /\ IsFilteredView(filteredIcons, iconsData, searchInput, currentCategory)
    /\ IsFilteredView(winFilteredIcons, winIconsData, searchInput,
                      currentCategory)

\* C15, as claimed: when a run of initializeIconLibrary ends by writing the
\* no-icons panel into the grid, the grid element is displayed (its display
\* style is not 'none').
C15_FailurePanelIsDisplayed ==
    lastDone.grid.kind = "noicons" => lastDone.display # "none"

IsForced(kind) == kind \in {"refresh", "check"}

\* the first strategy a run of this kind must start with
FirstStrategyFor(kind) == IF IsForced(kind) THEN "api" ELSE "index"

----------------------------------------------------------------------------
(* Properties of the index file *)

SameRecord(a, b) ==
    /\ a.name = b.name
    /\ a.category = b.category
    /\ a.path = b.path

AllListedFetchable ==
    \A i \in 1..Len(rtIcons) : rtServer[rtIcons[i].path] = "ok"

\* C6, as claimed: the index generated from a collection, loaded while every
\* listed file is fetchable, gives one record for each record of the
\* collection, in the same order, with the same name, category and path.
C6_IndexRoundTrip ==
    (rtPhase = "loaded" /\ AllListedFetchable) =>
        /\ Len(rtLoaded) = Len(rtIcons)
        /\ \A i \in 1..Len(rtIcons) : SameRecord(rtLoaded[i], rtIcons[i])

----------------------------------------------------------------------------
(* Properties of the strategies over a listing *)

StrategyApplied == rtPhase \in {"index", "api", "listing"}

\* the order in which the strategy applied meets the files listed: the index
\* file entry by entry, the other two folder by folder
ListingOrder ==
    IF rtPhase = "index" THEN rtIcons
    ELSE SelectSeq(rtIcons, LAMBDA f : f[1] = IconFolders[1])
         \o SelectSeq(rtIcons, LAMBDA f : f[1] = IconFolders[2])

\* the fetch of the file's content succeeds: neither rejected nor answered
\* with a non-success status
FetchSucceeds(f) == rtServer[PathOf(f[1], f[2])] \in {"ok", "empty"}

\* the fetch succeeds with a non-empty body and, in the index file, the
\* file's entry has a non-empty name
Usable(f) ==
    /\ rtServer[PathOf(f[1], f[2])] = "ok"
    /\ rtPhase = "index" => ReplaceFirst(f[2], DotSvg, <<>>) # <<>>

\* the result holds one record for each listed file that keep accepts, in
\* listing order, and nothing else
ResultIsListedFiles(keep(_)) ==
    LET expected == SelectSeq(ListingOrder, keep)
    IN  /\ Len(rtLoaded) = Len(expected)
        /\ \A i \in 1..Len(expected) :
               rtLoaded[i] = FolderIcon(expected[i][1], expected[i][2])

\* C13, as claimed: a strategy's result holds exactly the listed files whose
\* content fetch succeeds, in listing order; a file whose fetch fails is
\* left out and the files before and after it are not.
C13_FailedFetchDropsOnlyThatFile ==
    StrategyApplied => ResultIsListedFiles(FetchSucceeds)

\* C13, amended: a strategy's result holds exactly the listed files whose
\* content fetch succeeds with a non-empty body (and, in the index strategy,
\* whose entry has a non-empty name), in listing order; a file left out
\* neither discards the files before and after it nor ends the strategy.
C13_UnusableFileDropsOnlyThatFile ==
    StrategyApplied => ResultIsListedFiles(Usable)

\* three files listed for one folder by the hosting API, the fetch of the
\* second fails, the first and the third are in the result
C13_Witness ==
    /\ rtPhase = "api"
    /\ Len(rtIcons) = 3
    /\ \A i \in 1..3 : rtIcons[i][1] = Grey
    /\ rtServer[PathOf(Grey, rtIcons[2][2])] = "fail"
    /\ rtIcons[1][2] # rtIcons[2][2]
    /\ rtIcons[3][2] = rtIcons[1][2]
    /\ Len(rtLoaded) = 2

\* C14, as claimed: the collection a strategy returns holds at most one
\* record for each pair of category and name.
C14_OneRecordPerCategoryAndName ==
    StrategyApplied =>
        \A i, j \in 1..Len(rtLoaded) :
            (rtLoaded[i].category = rtLoaded[j].category
                /\ rtLoaded[i].name = rtLoaded[j].name) => i = j

====
